---- MODULE Spec2Model ----
\* Model of package dsp (src/unnamed/part_001) of ejuju/poc-go-music:
\* the signal constructors Sequence and Combine, the sampler Sample and the
\* encoder EncodePCM.
\*
\* time.Duration is an integer count of nanoseconds.  The model keeps the
\* integer arithmetic and scales the resolution: Second is the number of
\* duration units in one second.
\*
\* float64 values are modelled as exact fractions plus +Inf, -Inf and NaN.
\* The inputs of Sample are restricted to rates for which float64 arithmetic
\* is exact (Second / rate is an integer or a half), so the fractions are
\* what the program computes.
EXTENDS Integers, Sequences, FiniteSets, TLC

\* ------------------------------------------------------------------ bounds
\* duration units per second (time.Second, scaled)
Second == 4
\* Sample: |from| is at most MaxFrom, the window length at most MaxLen
MaxFrom == 2
MaxLen == 5
\* Sequence / Combine: number of signals, segment duration, evaluation time
MaxSignals == 3
MaxDur == 2
MaxT == 7
\* EncodePCM: number of frames
MaxPCM == 3

\* frames the model follows in one call of Sample; every call whose loop
\* ends does so in at most 2 * MaxLen iterations (the largest rate is 2 * Second)
MaxFrames == 2 * MaxLen + 2

\* ------------------------------------------------------------------ float64
Abs(n) == IF n < 0 THEN -n ELSE n
Sgn(n) == IF n < 0 THEN -1 ELSE IF n > 0 THEN 1 ELSE 0

RECURSIVE GCD(_, _)
GCD(a, b) == IF b = 0 THEN a ELSE GCD(b, a % b)

\* a finite float64 value num/den in lowest terms, den > 0
Fin(num, den) ==
    LET g == GCD(Abs(num), den)
    IN  [cls |-> "fin", num |-> num \div g, den |-> den \div g]
PosInf == [cls |-> "+Inf", num |-> 0, den |-> 1]
NegInf == [cls |-> "-Inf", num |-> 0, den |-> 1]
NaN == [cls |-> "NaN", num |-> 0, den |-> 1]

\* float64(n) of an integer n
Float64(n) == Fin(n, 1)

\* x / y on float64 (IEEE 754: a division by zero is an infinity or NaN);
\* the operands the program divides are finite
FDiv(x, y) ==
    IF y.num = 0
    THEN IF x.num = 0 THEN NaN ELSE IF x.num > 0 THEN PosInf ELSE NegInf
    ELSE Fin(Sgn(y.num) * x.num * y.den, x.den * Abs(y.num))

\* x + y on float64; y is never NaN and x is finite or +Inf/-Inf
FAdd(x, y) ==
    IF x.cls # "fin" THEN IF y.cls = "fin" \/ y.cls = x.cls THEN x ELSE NaN
    ELSE IF y.cls # "fin" THEN y
    ELSE Fin(x.num * y.den + y.num * x.den, x.den * y.den)

\* x < y on float64 (false when either is NaN)
FLess(x, y) ==
    CASE x.cls = "NaN" \/ y.cls = "NaN" -> FALSE
      [] x.cls = "+Inf" -> FALSE
      [] x.cls = "-Inf" -> y.cls # "-Inf"
      [] y.cls = "+Inf" -> TRUE
      [] y.cls = "-Inf" -> FALSE
      [] OTHER -> x.num * y.den < y.num * x.den

\* time.Duration(f) of a finite float64: truncation toward zero
ToDuration(f) ==
    IF f.num >= 0 THEN f.num \div f.den ELSE -((-f.num) \div f.den)

\* ------------------------------------------------------------------ state
VARIABLES
    \* Sample: position, arguments, locals and the calls made to s.At
    pc, rate, from, to, step, i, frames, evals,
    \* Sample: parity of the iterations made after the first MaxFrames
    more,
    \* the signal built by Sequence (NoSignal before) and the outcomes of its
    \* last two evaluations
    seq, seqLast, seqPrev,
    \* the signal built by Combine and the outcome of its last evaluation
    mix, mixLast,
    \* EncodePCM: position, argument, index of the range loop, buffer b
    pcmPc, pcmFrames, pcmK, b

sampleVars == <<pc, rate, from, to, step, i, frames, evals, more>>
seqVars == <<seq, seqLast, seqPrev>>
mixVars == <<mix, mixLast>>
pcmVars == <<pcmPc, pcmFrames, pcmK, b>>
vars == <<sampleVars, seqVars, mixVars, pcmVars>>

NoSignal == [op |-> "none"]
NoEval == [x |-> 0, out |-> [kind |-> "none"]]

\* ------------------------------------------------------------------ Sample
\* the value s.At(x) of the sampled signal: a pure function of x
SignalAt(x) == [at |-> x]

\* rates for which Second / rate is exact in float64
Rates ==
    {r \in -2 .. 2 * Second :
        r = 0 \/ r = 2 * Second \/ Second % Abs(r) = 0}
Froms == -MaxFrom .. MaxFrom
Lengths == -1 .. MaxLen

\* mutant: the step computed as rate / second
SampleStepInverted(r) == FDiv(Float64(r), Float64(Second))
SampleStep(r) == FDiv(Float64(Second), Float64(r))
\* mutant: the loop bound taken as closed, i <= from + to
SampleCondClosed == ~FLess(Float64(from + to), i)
SampleCond == FLess(i, Float64(from + to))

InitSample ==
    /\ pc = "idle"
    /\ rate = 1 /\ from = 0 /\ to = 0
    /\ step = SampleStep(1)
    /\ i = Float64(0)
    /\ frames = <<>>
    /\ evals = <<>>
    /\ more = 0

\* func Sample(s, rate, from, to): entry, step and the loop's init statement
SampleCall(r, f, t) ==
    /\ pc \in {"idle", "done"}
    /\ rate' = r /\ from' = f /\ to' = t
    /\ step' = SampleStep(r)
    /\ i' = Float64(f)
    /\ frames' = <<>>
    /\ evals' = <<>>
    /\ more' = 0
    /\ pc' = "loop"
    /\ UNCHANGED <<seqVars, mixVars, pcmVars>>

\* one iteration: val := s.At(time.Duration(i)); append; i += step.
\* The first MaxFrames iterations are followed in full.  A loop that gets
\* further has a step < 0 (SampleCapUnused), so i only moves away from the
\* bound and the condition stays true: of the later iterations the model
\* keeps the parity.
SampleLoop ==
    /\ pc = "loop"
    /\ SampleCond
    /\ IF Len(frames) < MaxFrames
       THEN /\ evals' = Append(evals, ToDuration(i))
            /\ frames' = Append(frames, SignalAt(ToDuration(i)))
            /\ i' = FAdd(i, step)
            /\ more' = more
       ELSE /\ more' = 1 - more
            /\ UNCHANGED <<evals, frames, i>>
    /\ UNCHANGED <<pc, rate, from, to, step>>
    /\ UNCHANGED <<seqVars, mixVars, pcmVars>>

\* the loop condition fails: return frames
SampleReturn ==
    /\ pc = "loop"
    /\ ~SampleCond
    /\ pc' = "done"
    /\ UNCHANGED <<rate, from, to, step, i, frames, evals, more>>
    /\ UNCHANGED <<seqVars, mixVars, pcmVars>>

\* ------------------------------------------------------------------ Sequence
\* x % y of Go on integers, y # 0: the result has the sign of x
GoRem(x, y) == Sgn(x) * (Abs(x) % Abs(y))

\* a value returned by an evaluation, a run-time panic
Value(v) == [kind |-> "value", v |-> v]
Panic(msg) == [kind |-> "panic", msg |-> msg]

\* F(d, s): the segment signals are s_1, s_2, ...; segment k holds s_k
F(d, s) == [Signal |-> s, Duration |-> d]
\* s_k.At(x) of a segment signal: a pure function of k and x
SegmentAt(s, x) == [Signal |-> s, at |-> x]

RECURSIVE SumDurations(_)
SumDurations(signals) ==
    IF signals = <<>> THEN 0
    ELSE signals[1].Duration + SumDurations(Tail(signals))

\* mutant: a time on a boundary matches the segment that ends there
SegmentMatchesClosed(x, off, s) == x >= off /\ x <= off + s.Duration
\* the test of the lookup loop: x >= i && x < i+s.Duration
SegmentMatches(x, off, s) == x >= off /\ x < off + s.Duration

\* mutant: the segment's signal is evaluated at the time since its start
RECURSIVE LookupRelative(_, _, _, _)
LookupRelative(signals, k, off, x) ==
    IF k > Len(signals) THEN Panic("unreachable")
    ELSE IF SegmentMatches(x, off, signals[k])
         THEN Value(SegmentAt(signals[k].Signal, x - off))
         ELSE LookupRelative(signals, k + 1, off + signals[k].Duration, x)
\* the lookup loop from segment k on, off being the loop's i
RECURSIVE Lookup(_, _, _, _)
Lookup(signals, k, off, x) ==
    IF k > Len(signals) THEN Panic("unreachable")
    ELSE IF SegmentMatches(x, off, signals[k])
         THEN Value(SegmentAt(signals[k].Signal, x))
         ELSE Lookup(signals, k + 1, off + signals[k].Duration, x)

\* mutant: the time is not reduced modulo the total duration
SequenceAtNoWrap(sq, x) == Lookup(sq.signals, 1, 0, x)
\* mutant: a total of zero is let through and the time left as it is
SequenceAtZeroGuard(sq, x) ==
    IF sq.totalDuration = 0 THEN Lookup(sq.signals, 1, 0, x)
    ELSE Lookup(sq.signals, 1, 0, GoRem(x, sq.totalDuration))
\* the closure Sequence returns, evaluated at x
SequenceAt(sq, x) ==
    IF sq.totalDuration = 0 THEN Panic("integer divide by zero")
    ELSE Lookup(sq.signals, 1, 0, GoRem(x, sq.totalDuration))

SegmentLists ==
    UNION {[1 .. n -> -1 .. MaxDur] : n \in 0 .. MaxSignals}
Times == -1 .. MaxT

InitSequence ==
    /\ seq = NoSignal
    /\ seqLast = NoEval
    /\ seqPrev = NoEval

\* Sequence(F(d_1, s_1), ..., F(d_n, s_n)): totalDuration and the closure
Sequence(durations) ==
    LET signals == [k \in 1 .. Len(durations) |-> F(durations[k], k)]
    IN  /\ seq = NoSignal
        /\ seq' = [op |-> "Sequence", signals |-> signals,
                   totalDuration |-> SumDurations(signals)]
        /\ seqLast' = NoEval
        /\ seqPrev' = NoEval
        /\ UNCHANGED <<sampleVars, mixVars, pcmVars>>

\* seq.At(x)
SequenceEval(x) ==
    /\ seq # NoSignal
    /\ seqPrev' = seqLast
    /\ seqLast' = [x |-> x, out |-> SequenceAt(seq, x)]
    /\ UNCHANGED <<seq, sampleVars, mixVars, pcmVars>>

NextSequence ==
    \/ \E durations \in SegmentLists : Sequence(durations)
    \/ \E x \in Times : SequenceEval(x)

\* ------------------------------------------------------------------ Combine
\* Constant(v).At(x)
ConstantAt(v, x) == Float64(v)

\* the loop of the closure: y += s.At(x) over signals k, k+1, ...
RECURSIVE SumAt(_, _, _, _)
SumAt(signals, k, y, x) ==
    IF k > Len(signals) THEN y
    ELSE SumAt(signals, k + 1, FAdd(y, ConstantAt(signals[k], x)), x)

\* the closure Combine returns, evaluated at x: the float64 division never
\* panics, also not with len(signals) = 0
CombineAt(m, x) ==
    Value(FDiv(SumAt(m.signals, 1, Float64(0), x), Float64(Len(m.signals))))

ConstantLists == UNION {[1 .. n -> -1 .. 1] : n \in 0 .. MaxSignals}

InitCombine ==
    /\ mix = NoSignal
    /\ mixLast = NoEval

\* Combine(Constant(v_1), ..., Constant(v_n))
Combine(signals) ==
    /\ mix = NoSignal
    /\ mix' = [op |-> "Combine", signals |-> signals]
    /\ mixLast' = NoEval
    /\ UNCHANGED <<sampleVars, seqVars, pcmVars>>

\* mix.At(x)
CombineEval(x) ==
    /\ mix # NoSignal
    /\ mixLast' = [x |-> x, out |-> CombineAt(mix, x)]
    /\ UNCHANGED <<mix, sampleVars, seqVars, pcmVars>>

NextCombine ==
    \/ \E signals \in ConstantLists : Combine(signals)
    \/ \E x \in Times : CombineEval(x)

\* ------------------------------------------------------------------ EncodePCM
\* a uint64 is held as four 16-bit limbs, most significant first
\* math.Float64bits of the float64 values the frames are drawn from
Float64bits(f) ==
    CASE f = "0" -> <<0, 0, 0, 0>>
      [] f = "1" -> <<16368, 0, 0, 0>>
      [] f = "-1" -> <<49136, 0, 0, 0>>
      [] f = "Pi" -> <<16393, 8699, 21572, 11544>>
      [] f = "NaN" -> <<32760, 0, 0, 1>>
PCMValues == {"0", "1", "-1", "Pi", "NaN"}

\* mutant: the bytes written least significant first
PutUint64LittleEndian(v) ==
    << v[4] % 256, v[4] \div 256, v[3] % 256, v[3] \div 256,
       v[2] % 256, v[2] \div 256, v[1] % 256, v[1] \div 256 >>
\* binary.BigEndian.PutUint64(buf[:], v): buf[0] = byte(v >> 56), ...,
\* buf[7] = byte(v)
PutUint64(v) ==
    << v[1] \div 256, v[1] % 256, v[2] \div 256, v[2] % 256,
       v[3] \div 256, v[3] % 256, v[4] \div 256, v[4] % 256 >>

FrameLists == UNION {[1 .. n -> PCMValues] : n \in 0 .. MaxPCM}

InitPCM ==
    /\ pcmPc = "idle"
    /\ pcmFrames = <<>>
    /\ pcmK = 0
    /\ b = <<>>

\* func EncodePCM(frames): entry, b is nil
EncodePCM(fs) ==
    /\ pcmPc = "idle"
    /\ pcmFrames' = fs
    /\ pcmK' = 1
    /\ b' = <<>>
    /\ pcmPc' = "range"
    /\ UNCHANGED <<sampleVars, seqVars, mixVars>>

\* one iteration: PutUint64(buf[:], Float64bits(pulse)); b = append(b, buf[:]...)
EncodeLoop ==
    /\ pcmPc = "range"
    /\ pcmK <= Len(pcmFrames)
    /\ b' = b \o PutUint64(Float64bits(pcmFrames[pcmK]))
    /\ pcmK' = pcmK + 1
    /\ UNCHANGED <<pcmPc, pcmFrames, sampleVars, seqVars, mixVars>>

\* the range is exhausted: return b
EncodeReturn ==
    /\ pcmPc = "range"
    /\ pcmK > Len(pcmFrames)
    /\ pcmPc' = "done"
    /\ UNCHANGED <<pcmFrames, pcmK, b, sampleVars, seqVars, mixVars>>

NextPCM ==
    \/ \E fs \in FrameLists : EncodePCM(fs)
    \/ EncodeLoop
    \/ EncodeReturn

\* ------------------------------------------------------------------ specifications
NextSample ==
    \/ \E r \in Rates, f \in Froms, t \in Lengths : SampleCall(r, f, t)
    \/ SampleLoop
    \/ SampleReturn

Init ==
    /\ InitSample
    /\ InitSequence
    /\ InitCombine
    /\ InitPCM

Next == NextSample \/ NextSequence \/ NextCombine \/ NextPCM
Spec == Init /\ [][Next]_vars

\* the operations share no state, so each is checked on its own
SampleSpec == Init /\ [][NextSample]_vars
SequenceSpec == Init /\ [][NextSequence]_vars
CombineSpec == Init /\ [][NextCombine]_vars
PCMSpec == Init /\ [][NextPCM]_vars

\* the Go runtime keeps executing the loop and the return
FairSampleSpec ==
    SampleSpec /\ WF_vars(SampleLoop) /\ WF_vars(SampleReturn)

\* ------------------------------------------------------------------ claims on Sample
\* the smallest integer >= n / d, for d > 0
CeilDiv(n, d) == -((-n) \div d)
\* Sample was called with parameters the specification calls invalid
InvalidParams == rate <= 0 \/ to < 0 \/ from < 0
\* the rate divides one second: the sample period is a whole number of units
WholePeriod == rate > 0 /\ Second % rate = 0

\* C3 (as stated): Sample(s, rate, 0, length) returns floor(length * rate /
\* 1 second) samples, also when length is no multiple of the sample period.
C3_FloorCount ==
    (pc = "done" /\ rate > 0 /\ from = 0 /\ to >= 0)
        => Len(frames) = (to * rate) \div Second

\* C3 (amended): Sample(s, rate, 0, length) returns ceil(length * rate /
\* 1 second) samples, one for every i >= 0 with i * period < length.
C3_CeilCount ==
    (pc = "done" /\ rate > 0 /\ from = 0 /\ to >= 0)
        => Len(frames) = CeilDiv(to * rate, Second)

C3_Witness ==
    /\ pc = "done" /\ rate > 0 /\ from = 0 /\ to > 0
    /\ (to * rate) % Second # 0
    /\ Len(frames) = (to * rate) \div Second + 1
    /\ Len(frames) >= 2

\* C4: Sample with rate <= 0, length < 0 or from < 0 is rejected before any
\* evaluation: s.At is never called and no sample sequence is returned.
C4_InvalidRejected == InvalidParams => evals = <<>>

\* C9 (as stated): for rate > 0 and length >= 0 the evaluation times are
\* exactly from + k * period (period = 1 second / rate), strictly increasing,
\* inside [from, from + length), and frame k is the value of s at that time
\* (stated for the offsets from >= 0 that the specification accepts).
C9_UniformTimes ==
    (pc \in {"loop", "done"} /\ rate > 0 /\ to >= 0 /\ from >= 0) =>
        /\ Len(frames) = Len(evals)
        /\ \A k \in 1 .. Len(evals) :
            /\ evals[k] * rate = from * rate + (k - 1) * Second
            /\ from <= evals[k] /\ evals[k] < from + to
            /\ frames[k] = SignalAt(evals[k])
            /\ k > 1 => evals[k - 1] < evals[k]

\* C9 (amended): the same, for a rate that divides one second, so that the
\* period is a whole number of duration units.
C9_UniformTimesWholePeriod ==
    (pc \in {"loop", "done"} /\ WholePeriod /\ to >= 0) =>
        /\ Len(frames) = Len(evals)
        /\ \A k \in 1 .. Len(evals) :
            /\ evals[k] = from + (k - 1) * (Second \div rate)
            /\ from <= evals[k] /\ evals[k] < from + to
            /\ frames[k] = SignalAt(evals[k])
            /\ k > 1 => evals[k - 1] < evals[k]

C9_Witness ==
    /\ pc = "done" /\ WholePeriod /\ rate > 1 /\ from # 0
    /\ Len(evals) >= 3
    /\ evals[3] = from + 2 * (Second \div rate)

\* C10: for every rate, offset and window length the sampling loop ends and
\* Sample returns its frames.
C10_SampleTerminates == (pc = "loop") ~> (pc = "done")

\* only a loop with a step < 0 makes more than MaxFrames - 1 iterations
SampleCapUnused ==
    (pc = "loop" /\ Len(frames) >= MaxFrames - 1) => (rate < 0 /\ step.num < 0)
\* ------------------------------------------------------------------ claims on Sequence
\* offset_k = d_1 + ... + d_(k-1)
Offset(signals, k) == SumDurations(SubSeq(signals, 1, k - 1))
\* t' lies in the half-open interval of segment k
InInterval(signals, k, t) ==
    /\ Offset(signals, k) <= t
    /\ t < Offset(signals, k) + signals[k].Duration
NonNegative(signals) == \A k \in 1 .. Len(signals) : signals[k].Duration >= 0
\* the sequence was built from non-negative durations with a total > 0 and
\* its last evaluation was at a time >= 0
SeqEvaluated ==
    /\ seq # NoSignal
    /\ seqLast # NoEval
    /\ NonNegative(seq.signals)
    /\ seq.totalDuration > 0
    /\ seqLast.x >= 0

\* C1: Sequence(s_1..s_n).At(t) is s_k.At(t') with t' = t mod D and k the one
\* segment whose interval [offset_k, offset_k + d_k) holds t'; the signal is
\* evaluated at t', not at t' - offset_k, and a boundary time selects the
\* segment that starts there.
C1_SegmentAtWrappedTime ==
    SeqEvaluated =>
        LET t == seqLast.x % seq.totalDuration
        IN  \E k \in 1 .. Len(seq.signals) :
                /\ InInterval(seq.signals, k, t)
                /\ \A j \in 1 .. Len(seq.signals) :
                       InInterval(seq.signals, j, t) => j = k
                /\ seqLast.out = Value(SegmentAt(k, t))

\* a wrapped time on the boundary between two segments of positive duration
C1_Witness ==
    /\ SeqEvaluated
    /\ seqLast.x >= seq.totalDuration
    /\ seqLast.out.kind = "value"
    /\ seqLast.out.v.Signal >= 2
    /\ seq.signals[1].Duration > 0
    /\ seqLast.out.v.at = Offset(seq.signals, seqLast.out.v.Signal)

\* C2: for a total duration D > 0 and t >= 0, At(t) = At(t + D).
C2_Periodic ==
    ( /\ seq # NoSignal /\ seq.totalDuration > 0
      /\ seqPrev # NoEval /\ seqLast # NoEval
      /\ seqPrev.x >= 0
      /\ seqLast.x = seqPrev.x + seq.totalDuration )
        => seqLast.out = seqPrev.out

C2_Witness ==
    /\ seq # NoSignal /\ seq.totalDuration > 0
    /\ Len(seq.signals) >= 2
    /\ seqPrev # NoEval /\ seqLast # NoEval
    /\ seqPrev.x > 0
    /\ seqLast.x = seqPrev.x + seq.totalDuration
    /\ seqPrev.out.kind = "value"
    /\ seqLast.out = seqPrev.out

WithoutZero(sq) ==
    [sq EXCEPT !.signals = SelectSeq(sq.signals, LAMBDA s : s.Duration # 0)]

\* C8: with non-negative durations, a total D > 0 and t >= 0 the lookup
\* matches exactly one segment, of positive duration; zero-duration segments
\* are never selected, change nothing in the result, and the lookup never
\* falls through to panic("unreachable").
C8_ZeroDurationSkipped ==
    SeqEvaluated =>
        LET t == seqLast.x % seq.totalDuration
            hits == {k \in 1 .. Len(seq.signals) : InInterval(seq.signals, k, t)}
        IN  /\ Cardinality(hits) = 1
            /\ seqLast.out.kind = "value"
            /\ seqLast.out.v.Signal \in hits
            /\ seq.signals[seqLast.out.v.Signal].Duration > 0
            /\ seqLast.out = SequenceAt(WithoutZero(seq), seqLast.x)

\* a zero-duration segment sits on the boundary the time falls on
C8_Witness ==
    /\ SeqEvaluated
    /\ seqLast.out.kind = "value"
    /\ seqLast.out.v.Signal >= 3
    /\ seq.signals[seqLast.out.v.Signal - 1].Duration = 0
    /\ seq.signals[1].Duration > 0
    /\ seqLast.out.v.at = Offset(seq.signals, seqLast.out.v.Signal)
\* ------------------------------------------------------------------ claims on Combine
\* C6: Combine of no signals never evaluates to an amplitude: the evaluation
\* fails with an error.
C6_EmptyCombineFails ==
    (mix # NoSignal /\ mix.signals = <<>> /\ mixLast # NoEval)
        => mixLast.out.kind = "panic"

\* ------------------------------------------------------------------ claims on EncodePCM
\* binary.BigEndian.Uint64 of the 8 bytes from position p on, as limbs
Uint64At(buf, p) ==
    [m \in 1 .. 4 |-> buf[p + 2 * (m - 1)] * 256 + buf[p + 2 * (m - 1) + 1]]
\* the buffer read 8 bytes at a time as big-endian 64-bit patterns
DecodedBits(buf) == [n \in 1 .. Len(buf) \div 8 |-> Uint64At(buf, 8 * (n - 1) + 1)]

\* math.Float64frombits: the float64 value with the bit pattern u
Float64frombits(u) == CHOOSE f \in PCMValues : Float64bits(f) = u

\* C7: EncodePCM returns 8 * len(frames) bytes, bytes 8i..8i+7 being the
\* big-endian encoding of the bit pattern of frame i, so reading the buffer
\* 8 bytes at a time gives back the frames in order; no frames, no bytes.
C7_BigEndianRoundTrip ==
    pcmPc = "done" =>
        /\ Len(b) = 8 * Len(pcmFrames)
        /\ \A n \in 1 .. Len(b) : b[n] \in 0 .. 255
        /\ DecodedBits(b) = [n \in 1 .. Len(pcmFrames) |-> Float64bits(pcmFrames[n])]
        /\ [n \in 1 .. Len(b) \div 8 |-> Float64frombits(DecodedBits(b)[n])] = pcmFrames

C7_Witness ==
    /\ pcmPc = "done"
    /\ Len(pcmFrames) = 2
    /\ pcmFrames[1] = "Pi" /\ pcmFrames[2] = "NaN"
    /\ b = << 64, 9, 33, 251, 84, 68, 45, 24, 127, 248, 0, 0, 0, 0, 0, 1 >>
====
